---- MODULE Spec2Model ----
(***************************************************************************)
(* Local APIC register block (crate lapic, src/src/lib.rs).                *)
(*                                                                         *)
(* LocalApic is a #[repr(C, align(16))] aggregate of 16-byte registers.    *)
(* Every register type is a #[bitfield(bits = 128)] struct: a byte array   *)
(* [u8; 16] with generated accessors F(), with_F / set_F (which panic on   *)
(* a value wider than the field), from_bytes and into_bytes.  The checked  *)
(* setters, which return Err(OutOfBounds) instead, are not modelled.       *)
(*                                                                         *)
(* A register value is the record [bytes |-> <<b1..b16>>].  A field value  *)
(* (the accessor's InOut type, u8 or u32) is written as its little-endian  *)
(* bytes, <<n>> for a u8 and <<n0,n1,n2,n3>> for a u32, so that every u32  *)
(* is representable.                                                       *)
(***************************************************************************)
EXTENDS Integers, Sequences, FiniteSets

VARIABLES fld, reg, origin, src, hist, last, result

vars == <<fld, reg, origin, src, hist, last, result>>

\* Longest sequence of successful field sets applied to one register value.
MaxSets == 2

\* #[bitfield(bits = 128)]: every register type is a 128-bit slot.
SlotBits == 128
\* The 32 significant bits of a slot; the rest is the B96 padding.
LowBits == 32
\* #[repr(C, align(16))] on LocalApic.
LocalApicAlign == 16

----------------------------------------------------------------------------
(* Bit-level helpers *)

Bit(n, k) == (n \div (2^k)) % 2

\* Bit i (0-based, little-endian) of a byte sequence.
read_bit(bytes, i) == Bit(bytes[(i \div 8) + 1], i % 8)

PackByte(b) ==
    b[0] + 2*b[1] + 4*b[2] + 8*b[3] + 16*b[4] + 32*b[5] + 64*b[6] + 128*b[7]

Zeros(n) == [j \in 1..n |-> 0]

----------------------------------------------------------------------------
(* Field declarations of the bitfield structs *)

\* A #[skip] __ : Bn entry (no accessors are generated).
Skip(n) == [name |-> "__", bits |-> n, base |-> 0]
\* pub name: Bn with n < 8, or B8 / u8: accessor type u8.
F8(nm, n) == [name |-> nm, bits |-> n, base |-> 8]
\* pub name: u32: accessor type u32.
F32(nm) == [name |-> nm, bits |-> 32, base |-> 32]

ApicId == << Skip(24), F8("apic_id", 4), Skip(4), Skip(96) >>

ApicVersion == << F8("version", 8), Skip(8), F8("max_lvt", 8), Skip(8), Skip(96) >>

PriorityRegister == << F8("priority", 8), Skip(24), Skip(96) >>

EndOfInterrupt == << F32("eoi"), Skip(96) >>

LogicalDestination == << Skip(24), F8("logical_dst", 8), Skip(96) >>

DestinationFormat == << Skip(28), F8("model", 4), Skip(96) >>

SpuriousInterruptVector ==
    << F8("spurious_vector", 8), F8("apic_enabled", 1), F8("focus_cpu", 1),
       Skip(22), Skip(96) >>

BitfieldRegister == << F32("bitfield"), Skip(96) >>

ErrorStatus ==
    << F8("send_cs", 1), F8("recv_cs", 1), F8("send_accept", 1),
       F8("recv_accept", 1), Skip(1), F8("send_illegal_vector", 1),
       F8("recv_illegal_vector", 1), F8("illegal_register_addr", 1),
       Skip(24), Skip(96) >>

\* InterruptCmdLow with the two reserved bits before shorthand declared B1.
InterruptCmdLow_B1 ==
    << F8("vector", 8), F8("delivery_mode", 3), F8("destination_mode", 1),
       F8("delivery_status", 1), Skip(1), F8("level", 1), F8("trigger", 1),
       Skip(1), F8("shorthand", 2), Skip(12), Skip(96) >>

InterruptCmdLow ==
    << F8("vector", 8), F8("delivery_mode", 3), F8("destination_mode", 1),
       F8("delivery_status", 1), Skip(1), F8("level", 1), F8("trigger", 1),
       Skip(2), F8("shorthand", 2), Skip(12), Skip(96) >>

InterruptCmdHigh == << Skip(24), F8("dst", 8), Skip(96) >>

TimerLVT ==
    << F8("vector", 8), Skip(4), F8("delivery_status", 1), Skip(3),
       F8("mask", 1), F8("timer_mode", 1), Skip(14), Skip(96) >>

ThermalLVT ==
    << F8("vector", 8), F8("delivery_mode", 3), Skip(1),
       F8("delivery_status", 1), Skip(3), F8("mask", 1), Skip(15), Skip(96) >>

PerfLVT ==
    << F8("vector", 8), F8("delivery_mode", 3), Skip(1),
       F8("delivery_status", 1), Skip(3), F8("mask", 1), Skip(15), Skip(96) >>

LIntLVT ==
    << F8("vector", 8), F8("delivery_mode", 3), Skip(1),
       F8("delivery_status", 1), F8("polarity", 1), F8("remote_irr", 1),
       F8("trigger", 1), F8("mask", 1), Skip(15), Skip(96) >>

ErrorLVT ==
    << F8("vector", 8), Skip(4), F8("delivery_status", 1), Skip(3),
       F8("mask", 1), Skip(15), Skip(96) >>

TimerCount == << F32("count"), Skip(96) >>

TimerDivConf == << F8("divisor", 4), Skip(28), Skip(96) >>

RegisterTypes ==
    { "ApicId", "ApicVersion", "PriorityRegister", "EndOfInterrupt",
      "LogicalDestination", "DestinationFormat", "SpuriousInterruptVector",
      "BitfieldRegister", "ErrorStatus", "InterruptCmdLow", "InterruptCmdHigh",
      "TimerLVT", "ThermalLVT", "PerfLVT", "LIntLVT", "ErrorLVT", "TimerCount",
      "TimerDivConf" }

Layout(ty) ==
    CASE ty = "ApicId" -> ApicId
      [] ty = "ApicVersion" -> ApicVersion
      [] ty = "PriorityRegister" -> PriorityRegister
      [] ty = "EndOfInterrupt" -> EndOfInterrupt
      [] ty = "LogicalDestination" -> LogicalDestination
      [] ty = "DestinationFormat" -> DestinationFormat
      [] ty = "SpuriousInterruptVector" -> SpuriousInterruptVector
      [] ty = "BitfieldRegister" -> BitfieldRegister
      [] ty = "ErrorStatus" -> ErrorStatus
      [] ty = "InterruptCmdLow" -> InterruptCmdLow
      [] ty = "InterruptCmdHigh" -> InterruptCmdHigh
      [] ty = "TimerLVT" -> TimerLVT
      [] ty = "ThermalLVT" -> ThermalLVT
      [] ty = "PerfLVT" -> PerfLVT
      [] ty = "LIntLVT" -> LIntLVT
      [] ty = "ErrorLVT" -> ErrorLVT
      [] ty = "TimerCount" -> TimerCount
      [] ty = "TimerDivConf" -> TimerDivConf

\* Sum of the widths of entries lo..hi (halving keeps the evaluation shallow).
RECURSIVE SumBits(_, _, _)
SumBits(D, lo, hi) ==
    IF lo > hi THEN 0
    ELSE IF lo = hi THEN D[lo].bits
    ELSE SumBits(D, lo, (lo + hi) \div 2) + SumBits(D, ((lo + hi) \div 2) + 1, hi)

\* Bit offset of entry k: the widths of the entries declared before it.
BitsBefore(D, k) == SumBits(D, 1, k - 1)

TotalBits(D) == BitsBefore(D, Len(D) + 1)

\* Entries that have accessors.
Named(D) == { k \in 1..Len(D) : D[k].name # "__" }

----------------------------------------------------------------------------
(* The LocalApic aggregate *)

\* One entry per declared field: element type and array length.
LocalApicFields ==
    << [name |-> "__reserved1", ty |-> "Reserved", count |-> 2],
       [name |-> "apic_id", ty |-> "ApicId", count |-> 1],
       [name |-> "apic_version", ty |-> "ApicVersion", count |-> 1],
       [name |-> "__reserved2", ty |-> "Reserved", count |-> 4],
       [name |-> "task_priority", ty |-> "PriorityRegister", count |-> 1],
       [name |-> "arb_priority", ty |-> "PriorityRegister", count |-> 1],
       [name |-> "processor_priority", ty |-> "PriorityRegister", count |-> 1],
       [name |-> "eoi", ty |-> "EndOfInterrupt", count |-> 1],
       [name |-> "__reserved7", ty |-> "u32", count |-> 4],
       [name |-> "logical_dst", ty |-> "LogicalDestination", count |-> 1],
       [name |-> "dst_format", ty |-> "DestinationFormat", count |-> 1],
       [name |-> "spurious_iv", ty |-> "SpuriousInterruptVector", count |-> 1],
       [name |-> "in_service", ty |-> "BitfieldRegister", count |-> 8],
       [name |-> "trigger_mode", ty |-> "BitfieldRegister", count |-> 8],
       [name |-> "interrupt_request", ty |-> "BitfieldRegister", count |-> 8],
       [name |-> "error_status", ty |-> "ErrorStatus", count |-> 1],
       [name |-> "__reserved8", ty |-> "Reserved", count |-> 7],
       [name |-> "interrupt_cmd_low", ty |-> "InterruptCmdLow", count |-> 1],
       [name |-> "interrupt_cmd_high", ty |-> "InterruptCmdHigh", count |-> 1],
       [name |-> "timer_lvt", ty |-> "TimerLVT", count |-> 1],
       [name |-> "thermal_lvt", ty |-> "ThermalLVT", count |-> 1],
       [name |-> "performance_lvt", ty |-> "PerfLVT", count |-> 1],
       [name |-> "lint0_lvt", ty |-> "LIntLVT", count |-> 1],
       [name |-> "lint1_lvt", ty |-> "LIntLVT", count |-> 1],
       [name |-> "error_lvt", ty |-> "ErrorLVT", count |-> 1],
       [name |-> "timer_icr", ty |-> "TimerCount", count |-> 1],
       [name |-> "timer_ccr", ty |-> "TimerCount", count |-> 1],
       [name |-> "__reserved9", ty |-> "Reserved", count |-> 4],
       [name |-> "timer_dcr", ty |-> "TimerDivConf", count |-> 1],
       [name |-> "__reserved10", ty |-> "Reserved", count |-> 1] >>

\* struct Reserved([u32; 4]), #[repr(transparent)].
Reserved == [name |-> "0", ty |-> "u32", count |-> 4]

\* SizeOf with Reserved declared as a single u32.
SizeOf_ReservedU32(ty) ==
    CASE ty = "u32" -> 4
      [] ty = "Reserved" -> 4
      [] OTHER -> SlotBits \div 8

\* size_of and align_of of the element types: u32; Reserved = [u32; 4];
\* a bitfield struct is the byte array [u8; SlotBits / 8].
SizeOf(ty) ==
    CASE ty = "u32" -> 4
      [] ty = "Reserved" -> Reserved.count * 4
      [] OTHER -> SlotBits \div 8

AlignOf(ty) ==
    CASE ty = "u32" -> 4
      [] ty = "Reserved" -> 4
      [] OTHER -> 1

AlignUp(n, a) == ((n + a - 1) \div a) * a

\* repr(C): each field goes at the end of the previous one, rounded up to
\* its own alignment.  end_after(lo, hi, s) is the end of field hi when
\* fields lo..hi are laid out in order from byte s (the range is halved,
\* and s is evaluated on entry, to keep the evaluation shallow).
RECURSIVE end_after(_, _, _)
end_after(lo, hi, s) ==
    IF s < 0 \/ lo > hi THEN s
    ELSE IF lo = hi
         THEN AlignUp(s, AlignOf(LocalApicFields[lo].ty))
                + LocalApicFields[lo].count * SizeOf(LocalApicFields[lo].ty)
         ELSE end_after(((lo + hi) \div 2) + 1, hi,
                        end_after(lo, (lo + hi) \div 2, s))

offset_of(k) == AlignUp(end_after(1, k - 1, 0), AlignOf(LocalApicFields[k].ty))

size_of_LocalApic == AlignUp(end_after(1, Len(LocalApicFields), 0), LocalApicAlign)

ApicIndex(nm) ==
    CHOOSE k \in 1..Len(LocalApicFields) : LocalApicFields[k].name = nm

\* The pub fields of LocalApic: the registers a caller can reach.
PubFields ==
    { LocalApicFields[k].name : k \in { j \in 1..Len(LocalApicFields) :
                                          LocalApicFields[j].ty \in RegisterTypes } }

TypeOf(nm) == LocalApicFields[ApicIndex(nm)].ty

\* The offsets asserted by tests::test_offsets (AMD APM vol. 2, table 16-2).
test_offsets ==
    [ apic_id |-> 32, apic_version |-> 48, task_priority |-> 128,
      arb_priority |-> 144, processor_priority |-> 160, eoi |-> 176,
      logical_dst |-> 208, dst_format |-> 224, spurious_iv |-> 240,
      in_service |-> 256, trigger_mode |-> 384, interrupt_request |-> 512,
      error_status |-> 640, interrupt_cmd_low |-> 768,
      interrupt_cmd_high |-> 784, timer_lvt |-> 800, thermal_lvt |-> 816,
      performance_lvt |-> 832, lint0_lvt |-> 848, lint1_lvt |-> 864,
      error_lvt |-> 880, timer_icr |-> 896, timer_ccr |-> 912,
      timer_dcr |-> 992 ]

\* A default that is not the zero pattern.
Default_Nonzero == [bytes |-> [j \in 1..(SlotBits \div 8) |-> IF j = 1 THEN 1 ELSE 0]]

\* #[derive(Default)] on a bitfield struct: the default of [u8; 16].
Default == [bytes |-> Zeros(SlotBits \div 8)]

\* Default of an element type as bytes: a register's default, or the zeros of
\* derive(Default) on u32 and on Reserved([u32; 4]).
DefaultBytes(ty) ==
    IF ty \in RegisterTypes THEN Default.bytes ELSE Zeros(SizeOf(ty))

\* The bytes of an array of n elements that are all the same.
Repeat(bytes, n) ==
    [i \in 1..(n * Len(bytes)) |-> bytes[((i - 1) % Len(bytes)) + 1]]

\* LocalApic::default() viewed as bytes, fields lo..hi: the padding before
\* each field (left zero) and every element's default.
RECURSIVE DefaultBytesOf(_, _)
DefaultBytesOf(lo, hi) ==
    IF lo = hi
    THEN Zeros(offset_of(lo) - end_after(1, lo - 1, 0))
           \o Repeat(DefaultBytes(LocalApicFields[lo].ty), LocalApicFields[lo].count)
    ELSE DefaultBytesOf(lo, (lo + hi) \div 2)
           \o DefaultBytesOf(((lo + hi) \div 2) + 1, hi)

LocalApicDefaultBytes ==
    DefaultBytesOf(1, Len(LocalApicFields))
      \o Zeros(size_of_LocalApic - end_after(1, Len(LocalApicFields), 0))

----------------------------------------------------------------------------
(* Generated accessors of a bitfield struct *)

\* Number of bytes of a field value of w bits.
ValBytes(w) == (w + 7) \div 8

\* read_specifier that drops the field's top bit.
read_specifier_short(bytes, o, w) ==
    [ j \in 1..ValBytes(w) |->
        PackByte([ b \in 0..7 |->
            IF 8 * (j - 1) + b < w - 1
            THEN read_bit(bytes, o + 8 * (j - 1) + b)
            ELSE 0 ]) ]

\* read_specifier: bits o .. o+w-1 of the slot, as a little-endian value.
read_specifier(bytes, o, w) ==
    [ j \in 1..ValBytes(w) |->
        PackByte([ b \in 0..7 |->
            IF 8 * (j - 1) + b < w
            THEN read_bit(bytes, o + 8 * (j - 1) + b)
            ELSE 0 ]) ]

\* write_specifier that zeroes the other bits of the bytes it writes.
write_specifier_clobber(bytes, o, w, v) ==
    [ j \in 1..Len(bytes) |->
        LET lo == 8 * (j - 1)
        IN IF lo + 8 <= o \/ lo >= o + w
           THEN bytes[j]
           ELSE PackByte([ b \in 0..7 |->
                    IF lo + b >= o /\ lo + b < o + w
                    THEN read_bit(v, lo + b - o)
                    ELSE 0 ]) ]

\* write_specifier that stores the value's bits most significant first.
write_specifier_msb(bytes, o, w, v) ==
    [ j \in 1..Len(bytes) |->
        LET lo == 8 * (j - 1)
        IN IF lo + 8 <= o \/ lo >= o + w
           THEN bytes[j]
           ELSE PackByte([ b \in 0..7 |->
                    IF lo + b >= o /\ lo + b < o + w
                    THEN read_bit(v, w - 1 - (lo + b - o))
                    ELSE read_bit(bytes, lo + b) ]) ]

\* write_specifier: replace bits o .. o+w-1 of the slot by the low w bits of
\* v; a byte the field does not reach is not written.
write_specifier(bytes, o, w, v) ==
    [ j \in 1..Len(bytes) |->
        LET lo == 8 * (j - 1)
        IN IF lo + 8 <= o \/ lo >= o + w
           THEN bytes[j]
           ELSE PackByte([ b \in 0..7 |->
                    IF lo + b >= o /\ lo + b < o + w
                    THEN read_bit(v, lo + b - o)
                    ELSE read_bit(bytes, lo + b) ]) ]

\* The getter F().
get_field(r, D, k) == read_specifier(r.bytes, BitsBefore(D, k), D[k].bits)

\* Bounds test that is off by one: it lets 2^w through.
out_of_bounds_off_by_one(e, v) == e.base # e.bits /\ v[1] > 2^(e.bits)

\* The bounds test of set_F_checked: only when the accessor type is wider
\* than the field (base_bits != spec_bits), raw_val > max_value.
out_of_bounds(e, v) == e.base # e.bits /\ v[1] > 2^(e.bits) - 1

\* set_field that writes at the offset of the next declared entry.
set_field_next(r, D, k, v) ==
    [bytes |-> write_specifier(r.bytes, BitsBefore(D, k + 1), D[k].bits, v)]

\* The write of set_F_checked once the bounds test passed.
set_field(r, D, k, v) ==
    [bytes |-> write_specifier(r.bytes, BitsBefore(D, k), D[k].bits, v)]

\* from_bytes that masks the padding bytes to zero.
from_bytes_masked(b) ==
    [bytes |-> [j \in 1..Len(b) |-> IF j > LowBits \div 8 THEN 0 ELSE b[j]]]

\* into_bytes that gives the bytes most significant first.
into_bytes_be(r) == [j \in 1..Len(r.bytes) |-> r.bytes[Len(r.bytes) + 1 - j]]

\* from_bytes / into_bytes of a filled (128-bit) bitfield struct.
from_bytes(b) == [bytes |-> b]

into_bytes(r) == r.bytes

----------------------------------------------------------------------------
(* Inputs *)

\* Byte sequences handed to from_bytes: all low bits set with clean
\* padding, and a mixed pattern with bits set in the padding.
ByteSamples ==
    { <<255, 255, 255, 255>> \o Zeros(12),
      <<165, 90, 60, 195, 1, 0, 0, 0, 0, 0, 0, 0, 0, 0, 0, 128>> }

\* Arguments of a setter: any value of the accessor type.  For a field
\* narrower than u8 the whole in-width range and two wider values.
ParamSamples(e) ==
    IF e.base = 32
    THEN { <<0, 0, 0, 0>>, <<255, 255, 255, 255>>, <<120, 86, 52, 146>> }
    ELSE IF e.bits < 8
         THEN { <<n>> : n \in (0..(2^(e.bits) - 1)) \cup {2^(e.bits), 255} }
         ELSE { <<n>> : n \in {0, 165, 255} }

----------------------------------------------------------------------------
(* State machine: a caller working on one register of a LocalApic.        *)
(*   fld    the LocalApic field the register lives in                      *)
(*   reg    the register value                                             *)
(*   origin how the value was constructed: "default" or "from_bytes"       *)
(*   src    the bytes given to from_bytes (zeros for a default)            *)
(*   hist   the successful field sets applied since, oldest first          *)
(*   last   the most recent call and its argument                          *)
(*   result "ok", or "panic": the call panicked and the program is gone   *)

\* The declaration of the register type at each pub field of LocalApic.
LayoutOf == [f \in PubFields |-> Layout(TypeOf(f))]

L == LayoutOf[fld]

NoCall(op, b) == [op |-> op, field |-> 0, arg |-> b]

\* LocalApic::default(): the register in field fld is its type's default.
Init ==
    /\ fld \in PubFields
    /\ reg = Default
    /\ origin = "default"
    /\ src = Zeros(SlotBits \div 8)
    /\ hist = << >>
    /\ last = NoCall("default", << >>)
    /\ result = "ok"

\* reg = T::from_bytes(b): the register is overlaid with caller bytes.  The
\* result does not depend on the value replaced, so the call is taken on the
\* freshly constructed register only.
FromBytes(b) ==
    /\ last.op = "default"
    /\ reg' = from_bytes(b)
    /\ origin' = "from_bytes"
    /\ src' = b
    /\ hist' = << >>
    /\ last' = NoCall("from_bytes", b)
    /\ result' = "ok"
    /\ UNCHANGED fld

\* r.with_F(v) / r.set_F(v) for the field declared k-th: the bounds test of
\* set_F_checked, a panic (expect) when it fails, the write otherwise.
with_field(k, v) ==
    /\ result = "ok"
    /\ Len(hist) < MaxSets
    /\ last' = [op |-> "with", field |-> k, arg |-> v]
    /\ IF out_of_bounds(L[k], v)
       THEN /\ result' = "panic"
            /\ UNCHANGED <<reg, hist>>
       ELSE /\ result' = "ok"
            /\ reg' = set_field(reg, L, k, v)
            /\ hist' = Append(hist, [field |-> k, arg |-> v])
    /\ UNCHANGED <<fld, origin, src>>

Next ==
    \/ \E b \in ByteSamples : FromBytes(b)
    \/ \E k \in Named(L) : \E v \in ParamSamples(L[k]) : with_field(k, v)

Spec == Init /\ [][Next]_vars

TypeOK ==
    /\ fld \in PubFields
    /\ Len(reg.bytes) = 16
    /\ \A j \in 1..16 : reg.bytes[j] \in 0..255
    /\ Len(hist) <= MaxSets

----------------------------------------------------------------------------
(* Properties *)

\* For each bit of a slot declared as D, low to high: the declared entry
\* that holds it, and the bit's position inside that entry.
RECURSIVE Owners(_, _, _)
Owners(D, lo, hi) ==
    IF lo = hi THEN [i \in 1..D[lo].bits |-> lo]
    ELSE Owners(D, lo, (lo + hi) \div 2) \o Owners(D, ((lo + hi) \div 2) + 1, hi)

RECURSIVE Positions(_, _, _)
Positions(D, lo, hi) ==
    IF lo = hi THEN [i \in 1..D[lo].bits |-> i - 1]
    ELSE Positions(D, lo, (lo + hi) \div 2)
           \o Positions(D, ((lo + hi) \div 2) + 1, hi)

\* The same per pub field of LocalApic, with the byte offset of the field.
OwnersOf == [f \in PubFields |-> Owners(LayoutOf[f], 1, Len(LayoutOf[f]))]

PositionsOf == [f \in PubFields |-> Positions(LayoutOf[f], 1, Len(LayoutOf[f]))]

FieldOffsets == [f \in PubFields |-> offset_of(ApicIndex(f))]

TypeOfField == [f \in PubFields |-> TypeOf(f)]

\* The register type's name and the accessors applied to the current state.
Ty == TypeOfField[fld]

Offset(k) == BitsBefore(L, k)

Value(k) == get_field(reg, L, k)

\* v fits the declared width of entry e.
InWidth(e, v) == e.bits = 8 * Len(v) \/ v[1] < 2^(e.bits)

Pad(bytes) == SubSeq(bytes, (LowBits \div 8) + 1, SlotBits \div 8)

\* The first four bytes as a little-endian u32 (used when bit 31 is clear).
LE32(bytes) == bytes[1] + 256 * bytes[2] + 65536 * bytes[3] + 16777216 * bytes[4]

\* The last successful set of field k, if any.
Written(k) == { i \in 1..Len(hist) : hist[i].field = k }

LastWritten(k) == hist[CHOOSE i \in Written(k) : \A j \in Written(k) : j <= i].arg

\* Sum of the sizes of the LocalApic fields lo..hi.
RECURSIVE Sizes(_, _)
Sizes(lo, hi) ==
    IF lo > hi THEN 0
    ELSE IF lo = hi THEN LocalApicFields[lo].count * SizeOf(LocalApicFields[lo].ty)
    ELSE Sizes(lo, (lo + hi) \div 2) + Sizes(((lo + hi) \div 2) + 1, hi)

\* Sum of the sizes of the fields declared before each pub field.
SizesBeforeField == [f \in PubFields |-> Sizes(1, ApicIndex(f) - 1)]

\* C1: the register's field of LocalApic starts at the byte offset of the
\* hardware table (tests::test_offsets), that offset is the sum of the sizes
\* of the fields declared before it, and LocalApic is exactly 1024 bytes.
C1_Offsets ==
    /\ fld \in DOMAIN test_offsets
    /\ FieldOffsets[fld] = test_offsets[fld]
    /\ FieldOffsets[fld] = SizesBeforeField[fld]
    /\ size_of_LocalApic = 1024

C1_Witness == fld = "timer_dcr" /\ hist # << >>

\* C2: after a setter call on field F with a value v of F's width, the call
\* succeeded and the getter of F returns exactly v.
C2_SetGet ==
    (last.op = "with" /\ InWidth(L[last.field], last.arg))
        => (result = "ok" /\ Value(last.field) = last.arg)

C2_Witness ==
    /\ Ty = "InterruptCmdLow"
    /\ last.op = "with"
    /\ L[last.field].name = "delivery_mode"
    /\ last.arg = <<5>>
    /\ src = <<255, 255, 255, 255>> \o Zeros(12)
    /\ Value(last.field) = <<5>>

\* C3: field sets change only the bits of the field set: whatever the
\* sequence of sets, every field that was set reads the value last set to
\* it, and every bit of any other field and every reserved bit (the padding
\* included) is as it was at construction.
C3_Frame ==
    LET D == L
        own == OwnersOf[fld]
        set == { hist[i].field : i \in 1..Len(hist) }
    IN /\ \A k \in set : get_field(reg, D, k) = LastWritten(k)
       /\ \A i \in 0..(LowBits - 1) :
            own[i + 1] \notin set => read_bit(reg.bytes, i) = read_bit(src, i)
       /\ Pad(reg.bytes) = Pad(src)

\* SpuriousInterruptVector: apic_enabled (entry 2) set to 1, then
\* spurious_vector (entry 1) set to 0xA5, on a register whose other bits
\* were all ones.
C3_Witness ==
    /\ Ty = "SpuriousInterruptVector"
    /\ src = <<255, 255, 255, 255>> \o Zeros(12)
    /\ hist = << [field |-> 2, arg |-> <<0>>], [field |-> 1, arg |-> <<165>>] >>
    /\ Value(1) = <<165>> /\ Value(2) = <<0>> /\ Value(3) = <<1>>

C5_SetOnDefault ==
    (origin = "default" /\ Len(hist) = 1) =>
        LET k == hist[1].field
            v == hist[1].arg
            o == Offset(k)
            w == L[k].bits
            bs == into_bytes(reg)
        IN /\ \A i \in 0..(LowBits - 1) :
                 read_bit(bs, i) =
                     IF o <= i /\ i < o + w THEN read_bit(v, i - o) ELSE 0
           /\ Pad(bs) = Zeros(12)
           /\ (Len(v) = 1 /\ o + w < LowBits) => LE32(bs) = v[1] * 2^o
           /\ Ty = "ApicId" =>
                 /\ L[k].name = "apic_id" /\ w = 4 /\ o = 24
                 /\ v = <<3>> => bs = <<0, 0, 0, 3>> \o Zeros(12)

C5_Witness ==
    /\ Ty = "ApicId"
    /\ origin = "default"
    /\ hist = << [field |-> 2, arg |-> <<3>>] >>
    /\ LE32(into_bytes(reg)) = 50331648

C7_PadAlwaysZero == Pad(into_bytes(reg)) = Zeros(12)

\* C7 amended: the padding bytes are zero for a default-constructed register
\* and after any field sets on it; a register made by from_bytes(b) keeps
\* bytes 4..15 of b, through any field sets.
C7_PadAsConstructed ==
    /\ origin = "default" => Pad(into_bytes(reg)) = Zeros(12)
    /\ Pad(into_bytes(reg)) = Pad(src)

C7_Witness ==
    /\ origin = "from_bytes"
    /\ Len(hist) = 2
    /\ Pad(into_bytes(reg)) = <<1, 0, 0, 0, 0, 0, 0, 0, 0, 0, 0, 128>>

\* C8: a default register converts to 16 zero bytes and every named field
\* reads 0; LocalApic::default() as bytes is 1024 zero bytes.
C8_DefaultZero ==
    last.op = "default" =>
        /\ into_bytes(reg) = Zeros(16)
        /\ \A k \in Named(L) : Value(k) = Zeros(ValBytes(L[k].bits))
        /\ LocalApicDefaultBytes = Zeros(1024)

C8_Witness == last.op = "default" /\ fld = "interrupt_cmd_low" /\ hist = << >>

\* C9: from a default register, after any sequence of field sets, every
\* reserved bit is zero, so the bytes are those of the named field values
\* at their offsets.
C9_ReservedStayZero ==
    origin = "default" =>
        LET D == L
            own == OwnersOf[fld]
            pos == PositionsOf[fld]
            bs == into_bytes(reg)
            vals == [k \in 1..Len(D) |->
                       IF D[k].name = "__" THEN << >> ELSE get_field(reg, D, k)]
        IN /\ \A i \in 0..(LowBits - 1) :
                read_bit(bs, i) =
                    IF D[own[i + 1]].name = "__" THEN 0
                    ELSE read_bit(vals[own[i + 1]], pos[i + 1])
           /\ Pad(bs) = Zeros(12)

C9_Witness ==
    /\ Ty = "TimerLVT"
    /\ origin = "default"
    /\ hist = << [field |-> 1, arg |-> <<255>>], [field |-> 6, arg |-> <<1>>] >>
    /\ into_bytes(reg) = <<255, 0, 2, 0>> \o Zeros(12)

\* Width and named-ness of each declared entry, low to high.
Shape(D) == [k \in 1..Len(D) |-> <<D[k].bits, D[k].name # "__">>]

\* C10: the declared entries of the register type partition the 128-bit
\* slot: the widths sum to 128, every bit lies in exactly one entry's range,
\* named fields lie within bits 0..31, the last entry is the 96 reserved
\* bits 32..127; ApicId, ApicVersion, InterruptCmdLow and TimerLVT have the
\* documented layouts.  (Evaluated once per pub field of LocalApic.)
PartitionOf ==
    [ f \in PubFields |->
        LET D == LayoutOf[f]
            own == OwnersOf[f]
            ty == TypeOfField[f]
        IN /\ TotalBits(D) = SlotBits
           /\ \A k \in 1..Len(D) : D[k].bits >= 1
           /\ Len(own) = SlotBits
           /\ \A k \in 1..Len(D) :
                { i \in 1..Len(own) : own[i] = k }
                    = (BitsBefore(D, k) + 1)..(BitsBefore(D, k) + D[k].bits)
           /\ \A k \in Named(D) : BitsBefore(D, k) + D[k].bits <= LowBits
           /\ D[Len(D)] = Skip(96) /\ BitsBefore(D, Len(D)) = LowBits
           /\ ty = "ApicId" =>
                Shape(D) = << <<24, FALSE>>, <<4, TRUE>>, <<4, FALSE>>,
                              <<96, FALSE>> >>
           /\ ty = "ApicVersion" =>
                Shape(D) = << <<8, TRUE>>, <<8, FALSE>>, <<8, TRUE>>,
                              <<8, FALSE>>, <<96, FALSE>> >>
           /\ ty = "InterruptCmdLow" =>
                Shape(D) = << <<8, TRUE>>, <<3, TRUE>>, <<1, TRUE>>, <<1, TRUE>>,
                              <<1, FALSE>>, <<1, TRUE>>, <<1, TRUE>>,
                              <<2, FALSE>>, <<2, TRUE>>, <<12, FALSE>>,
                              <<96, FALSE>> >>
           /\ ty = "TimerLVT" =>
                Shape(D) = << <<8, TRUE>>, <<4, FALSE>>, <<1, TRUE>>,
                              <<3, FALSE>>, <<1, TRUE>>, <<1, TRUE>>,
                              <<14, FALSE>>, <<96, FALSE>> >> ]

C10_Partition == PartitionOf[fld]

C10_Witness ==
    /\ Ty = "InterruptCmdLow"
    /\ hist # << >>
    /\ L[hist[1].field].name = "shorthand"

====
